---- MODULE Spec2Model ----
(***************************************************************************)
(* The OpenCode chat model of n8n-nodes-opencode: one model instance that  *)
(* serves calls one after the other.  Two implementations of the class are *)
(* in the repository and both are modelled:                                *)
(*   - the event-stream implementation (src/unnamed/part_000), whose       *)
(*     _generate ("generate") and _streamResponseChunks ("stream") submit  *)
(*     the prompt and then decode the shared SSE stream GET /event;        *)
(*   - the synchronous implementation                                      *)
(*     (src/nodes/LmChatOpenCode/OpenCodeChatModel.ts), whose _generate    *)
(*     ("sync") reads the answer from the prompt response itself.          *)
(* Text on the wire is a sequence of tokens, each token a string standing  *)
(* for a run of characters ("data:", " ", "{", the text of an event,       *)
(* "}", "\n"), so a read may cut a line anywhere between two tokens.       *)
(***************************************************************************)
EXTENDS Integers, Sequences, FiniteSets, TLC

\* Bounds of the model.
MaxFrames == 3
MaxCalls == 2
MaxMessages == 2
MaxItems == 3
MaxOps == 1

\* private requestTimeout = 30000 (milliseconds)
requestTimeout == 30000

(***************************************************************************)
(* JavaScript values that a session id can be.                             *)
(***************************************************************************)
Str(s) == [t |-> "string", v |-> s]
Num(s) == [t |-> "number", v |-> s]
Undefined == [t |-> "undefined", v |-> "undefined"]

\* `${x}` in a template string
Template(x) == x.v

\* if (x)
Truthy(x) ==
  CASE x.t = "string" -> x.v # ""
    [] x.t = "number" -> x.v # "0"
    [] OTHER -> FALSE

(***************************************************************************)
(* Errors: the class of the thrown object, the text of its message with    *)
(* the interpolated values kept as fields.                                 *)
(***************************************************************************)
Err(name, msg, status, body, seconds) ==
  [name |-> name, msg |-> msg, status |-> status, body |-> body, seconds |-> seconds]

NoError == Err("", "", 0, "", 0)
\* what fetch rejects with when the connection fails
NetworkError == Err("TypeError", "fetch failed", 0, "", 0)
\* what fetch rejects with when controller.abort() ran
AbortError == Err("AbortError", "This operation was aborted", 0, "", 0)
\* what response.json() rejects with on a body that is not JSON
SyntaxError == Err("SyntaxError", "Unexpected token in JSON", 0, "", 0)
\* reading a property of null
NullTypeError == Err("TypeError", "Cannot read properties of null", 0, "", 0)

(***************************************************************************)
(* Outcomes of a call as its caller sees them.                             *)
(***************************************************************************)
Pending == [status |-> "pending", text |-> "", error |-> NoError]
Success(text) == [status |-> "ok", text |-> text, error |-> NoError]
Failure(e) == [status |-> "error", text |-> "", error |-> e]
\* the consumer of a streaming call called return() on the generator
Abandoned == [status |-> "abandoned", text |-> "", error |-> NoError]

(***************************************************************************)
(* Configuration of the instance, as the constructor leaves it.            *)
(***************************************************************************)
Configs ==
  { [baseUrl |-> "http://localhost:4096", apiKey |-> k, agent |-> "build",
     providerID |-> "anthropic", modelID |-> "claude-3-5-sonnet-20241022",
     temperature |-> Undefined, maxTokens |-> Undefined]
    : k \in {"", "test-key"} }

\* Configurations with and without a temperature and a maxTokens; the
\* temperature 0 is a temperature.
TunedConfigs ==
  { [c EXCEPT !.temperature = t, !.maxTokens = m] :
      c \in {c \in Configs : c.apiKey = ""},
      t \in {Undefined, Num("0"), Num("0.5")},
      m \in {Undefined, Num("1000")} }

\* headers["Authorization"] = `Bearer ${this.apiKey}` when this.apiKey is set
AuthHeaders(cfg) ==
  IF cfg.apiKey # "" THEN {<<"Authorization", "Bearer " \o cfg.apiKey>>} ELSE {}

JsonHeaders(cfg) == {<<"Content-Type", "application/json">>} \cup AuthHeaders(cfg)

(***************************************************************************)
(* The constructor.  Its argument gives each field as a string or leaves   *)
(* it out (Undefined).  impl names the implementation: "part_000" or       *)
(* "OpenCodeChatModel.ts"; they differ in the default of baseUrl.          *)
(***************************************************************************)
Implementations == {"part_000", "OpenCodeChatModel.ts"}

Fields(baseUrl, apiKey, agent, providerID, modelID, temperature, maxTokens) ==
  [baseUrl |-> baseUrl, apiKey |-> apiKey, agent |-> agent,
   providerID |-> providerID, modelID |-> modelID, temperature |-> temperature,
   maxTokens |-> maxTokens]

\* The arguments the instances of the model are constructed with.
FieldSets ==
  { Fields(baseUrl, apiKey, Undefined, providerID, modelID, Undefined, Undefined) :
      baseUrl \in {Undefined, Str("http://custom:8080"), Str("not-a-url"), Str("")},
      apiKey \in {Undefined, Str(""), Str("test-key")},
      providerID \in {Undefined, Str(""), Str("  "), Str("openai")},
      modelID \in {Undefined, Str(""), Str("  "), Str("gpt-4")} }

\* x ?? d
Coalesce(x, d) == IF x.t = "undefined" THEN d ELSE x

\* new URL(s) accepts every string
URLparsesAnything(s) == TRUE

\* new URL(s) returns for the absolute URLs among the strings of the model
\* and throws for the others
URLparses(s) ==
  s \in {"http://localhost:4096", "http://127.0.0.1:4096", "http://custom:8080"}

\* s.trim(), for the strings of the model
Trim(s) == IF s \in {"", " ", "  "} THEN "" ELSE s

DefaultBaseUrl(impl) ==
  IF impl = "part_000" THEN "http://localhost:4096" ELSE "http://127.0.0.1:4096"

ConfigError(msg) == [name |-> "Error", msg |-> msg, status |-> 0, body |-> "", seconds |-> 0]

\* What new OpenCodeChatModel(fields) comes to: the fields of the instance,
\* or the error thrown.  apiKey: "" stands for a key that is not set or is
\* empty, which the requests do not tell apart (if (this.apiKey)).
constructor(impl, fields) ==
  LET baseUrl == Coalesce(fields.baseUrl, Str(DefaultBaseUrl(impl)))
      providerID == Coalesce(fields.providerID, Str("anthropic"))
      modelID == Coalesce(fields.modelID, Str("claude-3-5-sonnet-20241022"))
  IN IF ~URLparses(baseUrl.v)
     THEN [threw |-> TRUE, value |-> Undefined,
           error |-> ConfigError("Invalid baseUrl: " \o baseUrl.v \o ". Must be a valid URL.")]
     ELSE IF ~Truthy(providerID) \/ Trim(providerID.v) = ""
     THEN [threw |-> TRUE, value |-> Undefined,
           error |-> ConfigError("providerID is required and cannot be empty")]
     ELSE IF ~Truthy(modelID) \/ Trim(modelID.v) = ""
     THEN [threw |-> TRUE, value |-> Undefined,
           error |-> ConfigError("modelID is required and cannot be empty")]
     ELSE [threw |-> FALSE,
           value |-> [impl |-> impl, baseUrl |-> baseUrl.v,
                      apiKey |-> Coalesce(fields.apiKey, Str("")).v,
                      agent |-> Coalesce(fields.agent, Str("build")).v,
                      providerID |-> providerID.v, modelID |-> modelID.v,
                      temperature |-> fields.temperature,
                      maxTokens |-> fields.maxTokens],
           error |-> NoError]

\* The argument that gives every field of a configuration.
FieldsOf(cfg) ==
  Fields(Str(cfg.baseUrl), IF cfg.apiKey = "" THEN Undefined ELSE Str(cfg.apiKey),
         Str(cfg.agent), Str(cfg.providerID), Str(cfg.modelID), cfg.temperature,
         cfg.maxTokens)

(***************************************************************************)
(* Message Translator.  A message's content is a string or a list of       *)
(* items; an item is a bare string (tag "string") or a tagged object.      *)
(***************************************************************************)
StringContent(s) == [isArray |-> FALSE, str |-> s, items |-> <<>>]
ListContent(items) == [isArray |-> TRUE, str |-> "", items |-> items]
Item(tag, text) == [tag |-> tag, text |-> text]
TextPart(text) == [type |-> "text", text |-> text]

\* a loop over the items that pushes a part for every item
RECURSIVE ItemsToPartsAll(_)
ItemsToPartsAll(items) ==
  IF items = <<>> THEN <<>>
  ELSE <<TextPart(Head(items).text)>> \o ItemsToPartsAll(Tail(items))

RECURSIVE ItemsToParts(_)
ItemsToParts(items) ==
  IF items = <<>> THEN <<>>
  ELSE LET item == Head(items)
           rest == ItemsToParts(Tail(items))
       IN IF item.tag = "string" THEN <<TextPart(item.text)>> \o rest
          ELSE IF item.tag = "text" THEN <<TextPart(item.text)>> \o rest
          ELSE rest

\* if (content) in the place of typeof content === "string": a message
\* whose content is the empty string yields no part
RECURSIVE convertTruthyMessages(_)
convertTruthyMessages(messages) ==
  IF messages = <<>> THEN <<>>
  ELSE LET content == Head(messages).content
           rest == convertTruthyMessages(Tail(messages))
       IN IF ~content.isArray
          THEN (IF content.str # "" THEN <<TextPart(content.str)>> ELSE <<>>) \o rest
          ELSE ItemsToParts(content.items) \o rest

RECURSIVE convertMessagesToPromptParts(_)
convertMessagesToPromptParts(messages) ==
  IF messages = <<>> THEN <<>>
  ELSE LET content == Head(messages).content
           rest == convertMessagesToPromptParts(Tail(messages))
       IN IF ~content.isArray THEN <<TextPart(content.str)>> \o rest
          ELSE ItemsToParts(content.items) \o rest

\* The message lists the calls of the lifecycle specification are made with.
CallMessages ==
  { <<[role |-> "user", content |-> StringContent("Say hello")]>>,
    <<[role |-> "user",
       content |-> ListContent(<<Item("text", "look"), Item("image_url", "")>>)]>> }

\* The sequences over S of length n at most.
SeqsUpTo(S, n) == UNION { [1..k -> S] : k \in 0..n }

\* The messages the translator is applied to: up to MaxMessages messages,
\* all with string content, or all with list content and MaxItems items
\* among them at most.
StringContents == { StringContent(text) : text \in {"", "a", "b"} }

Items == { Item("string", "s"), Item("text", "t"), Item("image_url", "u") }

Message(content) == [role |-> "user", content |-> content]

StringMessageLists ==
  SeqsUpTo({ Message(content) : content \in StringContents }, MaxMessages)

RECURSIVE ListMessageLists(_, _)
ListMessageLists(m, budget) ==
  IF m = 0 THEN { <<>> }
  ELSE UNION { { <<Message(ListContent(items))>> \o rest :
                   rest \in ListMessageLists(m - 1, budget - Len(items)) } :
               items \in SeqsUpTo(Items, budget) }

TranslatorMessages ==
  StringMessageLists \cup UNION { ListMessageLists(m, MaxItems) : m \in 0..MaxMessages }

(***************************************************************************)
(* The requests.  signal tells whether the request carries the abort       *)
(* signal of a requestTimeout timer.                                       *)
(***************************************************************************)
Request(op, method, url, headers, body, signal) ==
  [op |-> op, method |-> method, url |-> url, headers |-> headers, body |-> body,
   signal |-> signal]

CreateRequest(cfg) ==
  Request("create", "POST", cfg.baseUrl \o "/session", JsonHeaders(cfg),
          [agent |-> cfg.agent,
           model |-> [providerID |-> cfg.providerID, modelID |-> cfg.modelID]],
          TRUE)

\* part_000: POST /session/{id}/prompt with {parts}
PromptRequestStream(cfg, sessionId, parts) ==
  Request("prompt", "POST",
          cfg.baseUrl \o "/session/" \o Template(sessionId) \o "/prompt",
          JsonHeaders(cfg), [parts |-> parts], TRUE)

\* body.name = value when value !== undefined: the body with the field, or
\* the body as it is
WithField(body, name, value) ==
  IF value.t # "undefined" THEN body @@ (name :> value) ELSE body

\* OpenCodeChatModel.ts: POST /session/{id}/message with parts, model, agent,
\* and temperature and max_tokens when they are set
PromptRequestSync(cfg, sessionId, parts) ==
  Request("prompt", "POST",
          cfg.baseUrl \o "/session/" \o Template(sessionId) \o "/message",
          JsonHeaders(cfg),
          WithField(WithField([parts |-> parts,
                               model |-> [providerID |-> cfg.providerID,
                                          modelID |-> cfg.modelID],
                               agent |-> cfg.agent],
                              "temperature", cfg.temperature),
                    "max_tokens", cfg.maxTokens),
          TRUE)

\* streamResponse without its Authorization header
EventRequestBare(cfg) ==
  [op |-> "event", method |-> "GET", url |-> cfg.baseUrl \o "/event", headers |-> {},
   body |-> <<>>, signal |-> FALSE]

\* No timeout for the SSE stream
EventRequest(cfg) ==
  Request("event", "GET", cfg.baseUrl \o "/event", AuthHeaders(cfg), <<>>, FALSE)

DeleteRequest(cfg, sessionId) ==
  Request("delete", "DELETE", cfg.baseUrl \o "/session/" \o Template(sessionId),
          AuthHeaders(cfg), <<>>, TRUE)

(***************************************************************************)
(* The responses.  outcome: "ok" (2xx), "http" (another status),           *)
(* "network" (fetch rejects), "timeout" (the timer aborted the request).   *)
(* The body of a 2xx response: valid (it parses as JSON), null (it is the  *)
(* JSON null), id (its id field, Undefined when it has none), hasParts     *)
(* (its parts field is an array) and parts.                                *)
(***************************************************************************)
Body(valid, null, id, hasParts, parts) ==
  [valid |-> valid, null |-> null, id |-> id, hasParts |-> hasParts, parts |-> parts]

NoBody == Body(FALSE, FALSE, Undefined, FALSE, <<>>)

Response(outcome, status, text, body, stream) ==
  [outcome |-> outcome, status |-> status, text |-> text, body |-> body,
   stream |-> stream]

OkResponse(body) == Response("ok", 200, "", body, TRUE)
HttpErrors == { Response("http", 500, "Internal Server Error", NoBody, TRUE),
                Response("http", 400, "Bad Request", NoBody, TRUE) }
Rejections == { Response("network", 0, "", NoBody, FALSE),
                Response("timeout", 0, "", NoBody, FALSE) }

SessionIds == {"s1"}

\* The mock server names its sessions `session-${++sessionCounter}`.
MockId(n) == "session-" \o ToString(n)
MockSession(n) == Body(TRUE, FALSE, Str(MockId(n)), FALSE, <<>>)

\* Bodies the server may answer POST /session with.
CreateBodies ==
  { Body(TRUE, FALSE, Str(s), FALSE, <<>>) : s \in SessionIds \cup {""} }
  \cup { Body(TRUE, FALSE, Num("7"), FALSE, <<>>),
         Body(TRUE, FALSE, Undefined, FALSE, <<>>),
         Body(TRUE, TRUE, Undefined, FALSE, <<>>),
         NoBody }

CreateResponses == { OkResponse(b) : b \in CreateBodies } \cup HttpErrors \cup Rejections

Part(type, text) == [type |-> type, text |-> text]

\* Bodies the server may answer POST /session/{id}/message with.
MessageBodies ==
  { Body(TRUE, FALSE, Undefined, TRUE, p) :
      p \in { <<>>, <<Part("text", "a")>>, <<Part("text", "")>>,
              <<Part("tool", "x")>>,
              <<Part("text", "a"), Part("reasoning", "x"), Part("text", "b")>> } }
  \cup { Body(TRUE, FALSE, Undefined, FALSE, <<>>),
         Body(TRUE, TRUE, Undefined, FALSE, <<>>),
         NoBody }

\* POST /session/{id}/prompt answers {"status":"queued"}
QueuedBody == Body(TRUE, FALSE, Undefined, FALSE, <<>>)

PromptResponses(kind) ==
  (IF kind = "sync" THEN { OkResponse(b) : b \in MessageBodies }
   ELSE { OkResponse(QueuedBody) })
  \cup HttpErrors \cup Rejections

\* GET /event: a 2xx response may come without a body (stream = FALSE).
EventResponses ==
  { OkResponse(NoBody), Response("ok", 200, "", NoBody, FALSE),
    Response("network", 0, "", NoBody, FALSE) } \cup HttpErrors

DeleteResponses == { OkResponse(QueuedBody) } \cup HttpErrors \cup Rejections

(***************************************************************************)
(* What a function call comes to: it returns a value or throws an error.   *)
(***************************************************************************)
Return(value) == [threw |-> FALSE, value |-> value, error |-> NoError]
Throw(e) == [threw |-> TRUE, value |-> Undefined, error |-> e]

\* an error message with the status and without the body of the response
HttpErrorStatusOnly(msg, resp) ==
  [name |-> "Error", msg |-> msg, status |-> resp.status, body |-> "", seconds |-> 0]

HttpError(msg, resp) == Err("Error", msg, resp.status, resp.text, 0)
TimeoutError(msg) == Err("Error", msg, 0, "", requestTimeout \div 1000)

\* part_000 createSession: the id of the parsed body, whatever it is
createSessionStream(resp) ==
  CASE resp.outcome = "network" -> Throw(NetworkError)
    [] resp.outcome = "timeout" -> Throw(AbortError)
    [] resp.outcome = "http" ->
         Throw(HttpError("Failed to create OpenCode session", resp))
    [] OTHER ->
         IF ~resp.body.valid THEN Throw(SyntaxError)
         ELSE IF resp.body.null THEN Throw(NullTypeError)
         ELSE Return(resp.body.id)

\* OpenCodeChatModel.ts createSession: validates the id, names the timeout
createSessionSync(resp) ==
  CASE resp.outcome = "network" -> Throw(NetworkError)
    [] resp.outcome = "timeout" ->
         Throw(TimeoutError("Request to create session timed out"))
    [] resp.outcome = "http" ->
         Throw(HttpError("Failed to create OpenCode session", resp))
    [] OTHER ->
         IF ~resp.body.valid THEN Throw(SyntaxError)
         ELSE IF resp.body.null \/ resp.body.id.t # "string"
           THEN Throw(Err("Error", "Failed to create session: missing or invalid id", 0, "", 0))
         ELSE Return(resp.body.id)

createSession(kind, resp) ==
  IF kind = "sync" THEN createSessionSync(resp) ELSE createSessionStream(resp)

\* chunks.join("") / textParts.join("")
RECURSIVE Join(_)
Join(texts) == IF texts = <<>> THEN "" ELSE Head(texts) \o Join(Tail(texts))

\* the texts of the parts that are text-kind with a non-empty text
RECURSIVE TextsOfParts(_)
TextsOfParts(parts) ==
  IF parts = <<>> THEN <<>>
  ELSE LET part == Head(parts)
       IN (IF part.type = "text" /\ part.text # "" THEN <<part.text>> ELSE <<>>)
          \o TextsOfParts(Tail(parts))

\* sendPrompt without its check of response.ok
sendPromptStreamUnchecked(resp) ==
  CASE resp.outcome = "network" -> Throw(NetworkError)
    [] resp.outcome = "timeout" -> Throw(AbortError)
    [] OTHER -> Return(Undefined)

\* part_000 sendPrompt: never reads the body of a 2xx response
sendPromptStream(resp) ==
  CASE resp.outcome = "network" -> Throw(NetworkError)
    [] resp.outcome = "timeout" -> Throw(AbortError)
    [] resp.outcome = "http" ->
         Throw(HttpError("Failed to send prompt to OpenCode", resp))
    [] OTHER -> Return(Undefined)

\* OpenCodeChatModel.ts sendPrompt: the joined text parts of the response
sendPromptSync(resp) ==
  CASE resp.outcome = "network" -> Throw(NetworkError)
    [] resp.outcome = "timeout" ->
         Throw(TimeoutError("Request to send prompt timed out"))
    [] resp.outcome = "http" ->
         Throw(HttpError("Failed to send prompt to OpenCode", resp))
    [] OTHER ->
         IF ~resp.body.valid THEN Throw(SyntaxError)
         ELSE IF resp.body.null \/ ~resp.body.hasParts
           THEN Throw(Err("Error", "Invalid response from OpenCode: missing or invalid parts", 0, "", 0))
         ELSE IF TextsOfParts(resp.body.parts) = <<>>
           THEN Throw(Err("Error", "OpenCode API returned a response with no text content", 0, "", 0))
         ELSE Return(Str(Join(TextsOfParts(resp.body.parts))))

sendPrompt(kind, resp) ==
  IF kind = "sync" THEN sendPromptSync(resp) ELSE sendPromptStream(resp)

\* deleteSession without its catch: a rejection of the fetch propagates
deleteSessionUncaught(kind, resp) ==
  IF resp.outcome = "network"
  THEN [ran |-> TRUE, threw |-> TRUE, warned |-> FALSE, error |-> NetworkError]
  ELSE IF resp.outcome = "timeout"
  THEN [ran |-> TRUE, threw |-> TRUE, warned |-> FALSE, error |-> AbortError]
  ELSE [ran |-> TRUE, threw |-> FALSE, warned |-> FALSE, error |-> NoError]

\* deleteSession: every rejection of the fetch is caught and logged; the
\* status of the response is not looked at.
deleteSession(kind, resp) ==
  IF resp.outcome \in {"network", "timeout"}
  THEN [ran |-> TRUE, threw |-> FALSE, warned |-> TRUE, error |-> NoError]
  ELSE [ran |-> TRUE, threw |-> FALSE, warned |-> FALSE, error |-> NoError]

\* a finally block that reports the failed cleanup instead of the outcome
FinallyMasks(primary, cleanup) ==
  IF cleanup.threw \/ cleanup.warned
  THEN Failure(Err("Error", "Failed to clean up OpenCode session", 0, "", 0))
  ELSE primary

\* try { ... } finally { await this.deleteSession(sessionId) }: the outcome of
\* the try block stands unless the finally block throws.
Finally(primary, cleanup) ==
  IF cleanup.threw THEN Failure(cleanup.error) ELSE primary

(***************************************************************************)
(* The event stream.  The server writes frames; a frame is named by a key  *)
(* and is the token sequence FrameTokens gives it.  The token between "{"  *)
(* and "}" stands for the text of a JSON object, which JSONparse turns     *)
(* into the event it denotes.                                              *)
(***************************************************************************)
Event(type, hasPart, part, status) ==
  [type |-> type, hasPart |-> hasPart, part |-> part, status |-> status]

NoPart == Part("", "")

\* The JSON texts of the model and the events they parse to.
EventKeys == {"text-a", "text-b", "text-empty", "tool", "completed", "running", "connected",
              "text-other"}

EventOf(key) ==
  CASE key = "text-a" -> Event("message.part.updated", TRUE, Part("text", "a"), "")
    [] key = "text-b" -> Event("message.part.updated", TRUE, Part("text", "b"), "")
    [] key = "text-empty" -> Event("message.part.updated", TRUE, Part("text", ""), "")
    \* a text part of another session: OpenCodeEvent has no field that names
    \* the session of an event
    [] key = "text-other" -> Event("message.part.updated", TRUE, Part("text", "c"), "")
    [] key = "tool" -> Event("message.part.updated", TRUE, Part("tool", "x"), "")
    [] key = "completed" -> Event("session.updated", FALSE, NoPart, "completed")
    [] key = "running" -> Event("session.updated", FALSE, NoPart, "running")
    [] OTHER -> Event("server.connected", FALSE, NoPart, "")

\* The frames the server writes: the data frame of each event, the [DONE]
\* sentinel, a data frame whose JSON is cut short, and an empty line.
\* "unterminated" and "done-open" are a text frame and the sentinel without
\* the newline that ends a line.
FrameKeys == EventKeys \cup {"done", "malformed", "blank", "unterminated", "done-open"}

FrameTokens(key) ==
  CASE key = "done" -> <<"data:", " ", "[DONE]", "\n">>
    [] key = "malformed" -> <<"data:", " ", "{", "\n">>
    [] key = "blank" -> <<"\n">>
    [] key = "unterminated" -> <<"data:", " ", "{", "text-a", "}">>
    [] key = "done-open" -> <<"data:", " ", "[DONE]">>
    [] OTHER -> <<"data:", " ", "{", key, "}", "\n">>

\* buffer.split("\n"): the lines of a token sequence, the last one being what
\* follows the last newline
RECURSIVE Split(_)
Split(tokens) ==
  IF tokens = <<>> THEN << <<>> >>
  ELSE LET rest == Split(Tail(tokens))
       IN IF Head(tokens) = "\n" THEN << <<>> >> \o rest
          ELSE << <<Head(tokens)>> \o Head(rest) >> \o Tail(rest)

\* lines without lines.pop(): the piece after the last newline is handled as
\* a line and kept in the buffer as well
CompleteLinesAll(tokens) == Split(tokens)

\* lines after lines.pop()
CompleteLines(tokens) == SubSeq(Split(tokens), 1, Len(Split(tokens)) - 1)

\* buffer = "" after every read: the partial line is dropped
RemainderDropped(tokens) == <<>>

\* buffer = lines.pop() || ""
Remainder(tokens) == Split(tokens)[Len(Split(tokens))]

\* line.startsWith("data: ")
IsDataLine(line) == Len(line) >= 2 /\ line[1] = "data:" /\ line[2] = " "

\* line.slice(6)
Payload(line) == SubSeq(line, 3, Len(line))

\* JSON.parse(data)
JSONparse(data) ==
  IF Len(data) = 3 /\ data[1] = "{" /\ data[3] = "}" /\ data[2] \in EventKeys
  THEN Return(EventOf(data[2]))
  ELSE Throw(SyntaxError)

(***************************************************************************)
(* One iteration of the loop over the lines of a read: what the decoder    *)
(* does with a line. "skip": the line is no data line, or its event is     *)
(* ignored; "warn": the payload does not parse, the frame is logged and    *)
(* skipped; "yield": a text increment; "return": a terminator.             *)
(***************************************************************************)
Step(does, text) == [does |-> does, text |-> text]

\* a decoder that ends at the first event it has no use for
HandleEventStrict(event) ==
  IF event.type = "message.part.updated" /\ event.hasPart
     /\ event.part.type = "text" /\ event.part.text # ""
  THEN Step("yield", event.part.text)
  ELSE Step("return", "")

HandleEvent(event) ==
  IF event.type = "message.part.updated" /\ event.hasPart
     /\ event.part.type = "text" /\ event.part.text # ""
  THEN Step("yield", event.part.text)
  ELSE IF event.type = "session.updated" /\ event.status = "completed"
  THEN Step("return", "")
  ELSE Step("skip", "")

\* a decoder that knows no [DONE] sentinel: the payload goes to JSON.parse
HandleLineNoSentinel(line) ==
  IF ~IsDataLine(line) THEN Step("skip", "")
  ELSE IF JSONparse(Payload(line)).threw THEN Step("warn", "")
  ELSE HandleEvent(JSONparse(Payload(line)).value)

\* JSON.parse outside the try block: a payload that does not parse ends the
\* decoding
HandleLineStrict(line) ==
  IF ~IsDataLine(line) THEN Step("skip", "")
  ELSE IF Payload(line) = <<"[DONE]">> THEN Step("return", "")
  ELSE IF JSONparse(Payload(line)).threw THEN Step("return", "")
  ELSE HandleEvent(JSONparse(Payload(line)).value)

HandleLine(line) ==
  IF ~IsDataLine(line) THEN Step("skip", "")
  ELSE IF Payload(line) = <<"[DONE]">> THEN Step("return", "")
  ELSE IF JSONparse(Payload(line)).threw THEN Step("warn", "")
  ELSE HandleEvent(JSONparse(Payload(line)).value)

(***************************************************************************)
(* State.                                                                  *)
(*   fields      the argument the constructor was called with              *)
(*   config      the fields of the instance                                *)
(*   callNo      the calls started so far                                  *)
(*   kind        the operation of the current call: "generate", "stream"   *)
(*               (part_000) or "sync" (OpenCodeChatModel.ts)               *)
(*   messages, runManager   the arguments of the current call              *)
(*   pc          where the call is: "idle", "creating", "sending",         *)
(*               "opening", "reading", "lines", "yielded", "cancelling",   *)
(*               "deleting", "done"; "new" before the constructor has run  *)
(*               and "failed" when it has thrown                           *)
(*   sessionId   what createSession returned (NoSession before)            *)
(*   requests, responses   the requests of the call in the order they were *)
(*               issued, and the answers they got                          *)
(*   primary     the outcome of the try block, held while finally runs     *)
(*   result      what the caller gets                                      *)
(*   cleanup     what the call of deleteSession came to                    *)
(*   warnings    what console.warn was called for                          *)
(*   conn        the event-stream connection: "none", "open", "cancelled"  *)
(*   sent, wire, serverClosed   the frames the server has written, the     *)
(*               tokens not read yet, whether the server ended the stream  *)
(*   buffer, lines   the decoder's partial line, the lines of the current  *)
(*               read still to handle                                      *)
(*   exit        how the decoder left its loop                             *)
(*   chunks      collectResponse's chunks                                  *)
(*   yielded     the increments the decoder has yielded                    *)
(*   notified    the texts handleLLMNewToken was called with               *)
(*   options     the options of the node that supplied the instance        *)
(*   early       the frames the server wrote for the session of the call   *)
(*               before the call had opened its event stream               *)
(*   opCount     how many times cleanup() and bindTools() were called      *)
(*   cancelRequested   the caller has asked for the end of the current     *)
(*               call while it waits on the event stream                   *)
(*   sessionCounter, sessions   the mock server's counter of the sessions  *)
(*               it has created and the ids of its sessions map            *)
(***************************************************************************)
VARIABLES config, callNo, kind, messages, runManager, pc, sessionId, requests,
          responses, primary, result, cleanup, warnings, conn, sent, wire, serverClosed,
          buffer, lines, exit, chunks, yielded, notified, sessionCounter, sessions,
          fields, opCount, cancelRequested, options, early

vars == <<config, callNo, kind, messages, runManager, pc, sessionId, requests,
          responses, primary, result, cleanup, warnings, conn, sent, wire, serverClosed,
          buffer, lines, exit, chunks, yielded, notified, sessionCounter, sessions,
          fields, opCount, cancelRequested, options, early>>

\* what the caller has done besides starting calls
callerVars == <<opCount, cancelRequested, options>>
NoOps == [cleanup |-> 0, bindTools |-> 0]

\* no node has supplied the instance
NoOptions == [maxTokens |-> Undefined]

\* the state of the mock server
serverVars == <<sessionCounter, sessions, early>>

callVars == <<kind, messages, runManager>>
NoCleanup == [ran |-> FALSE, threw |-> FALSE, warned |-> FALSE, error |-> NoError]
streamVars == <<conn, sent, wire, serverClosed, buffer, lines, exit, chunks,
                yielded, notified>>

NoSession == [t |-> "none", v |-> ""]
NoExit == [how |-> "none", error |-> NoError]

Kinds == {"generate", "stream", "sync"}

Init ==
  /\ callNo = 0
  /\ kind = "none"
  /\ messages = <<>>
  /\ runManager = FALSE
  /\ pc = "idle"
  /\ sessionId = NoSession
  /\ requests = <<>>
  /\ responses = <<>>
  /\ primary = Pending
  /\ result = Pending
  /\ cleanup = NoCleanup
  /\ warnings = <<>>
  /\ conn = "none"
  /\ sent = <<>>
  /\ wire = <<>>
  /\ serverClosed = FALSE
  /\ buffer = <<>>
  /\ lines = <<>>
  /\ exit = NoExit
  /\ chunks = <<>>
  /\ yielded = <<>>
  /\ notified = <<>>
  /\ sessionCounter = 0
  /\ sessions = {}
  /\ opCount = NoOps
  /\ cancelRequested = FALSE
  /\ options = NoOptions
  /\ early = <<>>

(***************************************************************************)
(* new OpenCodeChatModel(fields): the constructor runs in one step, with   *)
(* no await in it.  When it throws there is no instance to call.           *)
(***************************************************************************)
NoConfig ==
  [impl |-> "none", baseUrl |-> "", apiKey |-> "", agent |-> "", providerID |-> "",
   modelID |-> "", temperature |-> Undefined, maxTokens |-> Undefined]

NoFields ==
  Fields(Undefined, Undefined, Undefined, Undefined, Undefined, Undefined, Undefined)

InitNew ==
  /\ fields = NoFields
  /\ config = NoConfig
  /\ callNo = 0
  /\ kind = "none"
  /\ messages = <<>>
  /\ runManager = FALSE
  /\ pc = "new"
  /\ sessionId = NoSession
  /\ requests = <<>>
  /\ responses = <<>>
  /\ primary = Pending
  /\ result = Pending
  /\ cleanup = NoCleanup
  /\ warnings = <<>>
  /\ conn = "none"
  /\ sent = <<>>
  /\ wire = <<>>
  /\ serverClosed = FALSE
  /\ buffer = <<>>
  /\ lines = <<>>
  /\ exit = NoExit
  /\ chunks = <<>>
  /\ yielded = <<>>
  /\ notified = <<>>
  /\ sessionCounter = 0
  /\ sessions = {}
  /\ opCount = NoOps
  /\ cancelRequested = FALSE
  /\ options = NoOptions
  /\ early = <<>>

Construct(impl, f) ==
  /\ pc = "new"
  /\ fields' = f
  /\ LET r == constructor(impl, f)
     IN IF r.threw
        THEN /\ pc' = "failed"
             /\ result' = Failure(r.error)
             /\ config' = config
        ELSE /\ pc' = "idle"
             /\ result' = result
             /\ config' = r.value
  /\ UNCHANGED <<serverVars, callerVars, callNo, callVars, sessionId, requests,
                 responses, primary, cleanup, warnings, streamVars>>

\* the operations of an implementation
KindsOf(impl) ==
  CASE impl = "part_000" -> {"generate", "stream"}
    [] impl = "OpenCodeChatModel.ts" -> {"sync"}
    [] OTHER -> {}

(***************************************************************************)
(* _generate / _streamResponseChunks up to the first await: createSession  *)
(* issues POST /session.                                                   *)
(***************************************************************************)
StartCall(k, msgs, rm) ==
  /\ pc \in {"idle", "done"}
  /\ callNo' = callNo + 1
  /\ kind' = k
  /\ messages' = msgs
  /\ runManager' = rm
  /\ pc' = "creating"
  /\ sessionId' = NoSession
  /\ requests' = <<CreateRequest(config)>>
  /\ responses' = <<>>
  /\ primary' = Pending
  /\ result' = Pending
  /\ cleanup' = NoCleanup
  /\ warnings' = <<>>
  /\ conn' = "none"
  /\ sent' = <<>>
  /\ wire' = <<>>
  /\ serverClosed' = FALSE
  /\ buffer' = <<>>
  /\ lines' = <<>>
  /\ exit' = NoExit
  /\ chunks' = <<>>
  /\ yielded' = <<>>
  /\ notified' = <<>>
  /\ cancelRequested' = FALSE
  /\ early' = <<>>
  /\ UNCHANGED <<fields, config, sessionCounter, sessions, opCount, options>>

\* an instance that keeps the first session it created and sends every
\* prompt to it
PromptRequestPooled(k, cfg, sid, msgs) ==
  IF k = "sync"
  THEN PromptRequestSync(cfg, Str(MockId(1)), convertMessagesToPromptParts(msgs))
  ELSE PromptRequestStream(cfg, Str(MockId(1)), convertMessagesToPromptParts(msgs))

\* the request sendPrompt issues
PromptRequest(k, cfg, sid, msgs) ==
  IF k = "sync" THEN PromptRequestSync(cfg, sid, convertMessagesToPromptParts(msgs))
  ELSE PromptRequestStream(cfg, sid, convertMessagesToPromptParts(msgs))

\* finally { if (sessionId) await this.deleteSession(sessionId) } in
\* OpenCodeChatModel.ts; finally { await this.deleteSession(sessionId) } in
\* part_000
DeletesSession(k, sid) == IF k = "sync" THEN Truthy(sid) ELSE TRUE

\* The try block has ended with outcome p: the finally block starts.
EnterFinally(p) ==
  IF DeletesSession(kind, sessionId')
  THEN /\ primary' = p
       /\ result' = result
       /\ requests' = Append(requests, DeleteRequest(config, sessionId'))
       /\ pc' = "deleting"
  ELSE /\ primary' = p
       /\ result' = p
       /\ requests' = requests
       /\ pc' = "done"

(***************************************************************************)
(* POST /session settles.  part_000 calls createSession before its try     *)
(* block, so a failure ends the call at once; OpenCodeChatModel.ts calls   *)
(* it inside, with sessionId still undefined in the finally block.         *)
(***************************************************************************)
CreateSettles(resp) ==
  /\ pc = "creating"
  /\ responses' = Append(responses, resp)
  /\ LET r == createSession(kind, resp)
     IN IF r.threw
        THEN IF kind = "sync"
             THEN /\ sessionId' = Undefined
                  /\ EnterFinally(Failure(r.error))
             ELSE /\ sessionId' = NoSession
                  /\ primary' = Failure(r.error)
                  /\ result' = Failure(r.error)
                  /\ requests' = requests
                  /\ pc' = "done"
        ELSE /\ sessionId' = r.value
             /\ requests' = Append(requests,
                                   PromptRequest(kind, config, r.value, messages))
             /\ pc' = "sending"
             /\ UNCHANGED <<primary, result>>
  /\ IF resp = OkResponse(MockSession(sessionCounter + 1))
     THEN /\ sessionCounter' = sessionCounter + 1
          /\ sessions' = sessions \cup {MockId(sessionCounter + 1)}
          /\ early' = early
     ELSE UNCHANGED serverVars
  /\ UNCHANGED <<callerVars, fields, config, callNo, callVars, cleanup, warnings, streamVars>>

(***************************************************************************)
(* The prompt request settles.  part_000 goes on to open the event stream; *)
(* OpenCodeChatModel.ts has its answer, notifies the callback and returns. *)
(***************************************************************************)
PromptSettles(resp) ==
  /\ pc = "sending"
  /\ responses' = Append(responses, resp)
  /\ sessionId' = sessionId
  /\ LET r == sendPrompt(kind, resp)
     IN IF r.threw
        THEN /\ EnterFinally(Failure(r.error))
             /\ notified' = notified
        ELSE IF kind = "sync"
        THEN /\ EnterFinally(Success(r.value.v))
             /\ notified' = IF runManager THEN Append(notified, r.value.v)
                            ELSE notified
        ELSE /\ requests' = Append(requests, EventRequest(config))
             /\ pc' = "opening"
             /\ notified' = notified
             /\ UNCHANGED <<primary, result>>
  /\ UNCHANGED <<serverVars, callerVars, fields, config, callNo, callVars, cleanup, warnings, conn, sent, wire,
                 serverClosed, buffer, lines, exit, chunks, yielded>>

(***************************************************************************)
(* streamResponse: GET /event settles.  A failure here is thrown before    *)
(* the decoder's try block, so there is no reader to cancel.               *)
(***************************************************************************)
\* streamResponse without its check of response.body
openStreamUnchecked(resp) ==
  CASE resp.outcome = "network" -> Throw(NetworkError)
    [] resp.outcome = "http" ->
         Throw(HttpError("Failed to connect to OpenCode event stream", resp))
    [] OTHER -> Return(Undefined)

openStream(resp) ==
  CASE resp.outcome = "network" -> Throw(NetworkError)
    [] resp.outcome = "http" ->
         Throw(HttpError("Failed to connect to OpenCode event stream", resp))
    [] ~resp.stream -> Throw(Err("Error", "Response body is null", 0, "", 0))
    [] OTHER -> Return(Undefined)

OpenSettles(resp) ==
  /\ pc = "opening"
  /\ responses' = Append(responses, resp)
  /\ sessionId' = sessionId
  /\ LET r == openStream(resp)
     IN IF r.threw
        THEN /\ EnterFinally(Failure(r.error))
             /\ conn' = conn
        ELSE /\ conn' = "open"
             /\ pc' = "reading"
             /\ UNCHANGED <<primary, result, requests>>
  /\ UNCHANGED <<serverVars, callerVars, fields, config, callNo, callVars, cleanup, warnings, sent, wire, serverClosed,
                 buffer, lines, exit, chunks, yielded, notified>>

(***************************************************************************)
(* The server side of the event stream: it writes a frame, or ends the     *)
(* response.  What it writes while the decoder handles lines is read by    *)
(* the next read, so it writes while the decoder waits in reader.read().   *)
(***************************************************************************)
ServerSend(key) ==
  /\ conn = "open"
  /\ pc = "reading"
  /\ ~serverClosed
  /\ Len(sent) < MaxFrames
  /\ sent' = Append(sent, key)
  /\ wire' = wire \o FrameTokens(key)
  /\ UNCHANGED <<serverVars, callerVars, fields, config, callNo, callVars, pc, sessionId, requests, responses,
                 primary, result, cleanup, warnings, conn, serverClosed, buffer, lines,
                 exit, chunks, yielded, notified>>

ServerClose ==
  /\ conn = "open"
  /\ pc = "reading"
  /\ ~serverClosed
  /\ serverClosed' = TRUE
  /\ UNCHANGED <<serverVars, callerVars, fields, config, callNo, callVars, pc, sessionId, requests, responses,
                 primary, result, cleanup, warnings, conn, sent, wire, buffer, lines,
                 exit, chunks, yielded, notified>>

\* The decoder leaves its loop: finally { await reader.cancel() ... }
ExitDecoder(how, error) ==
  /\ exit' = [how |-> how, error |-> error]
  /\ pc' = "cancelling"

(***************************************************************************)
(* reader.read() gives the next n tokens: they are appended to the buffer, *)
(* the buffer is split at the newlines and its last piece is kept.         *)
(***************************************************************************)
ReadChunk(n) ==
  /\ pc = "reading"
  /\ conn = "open"
  /\ n \in 1..Len(wire)
  /\ LET text == buffer \o SubSeq(wire, 1, n)
     IN /\ lines' = CompleteLines(text)
        /\ buffer' = Remainder(text)
        /\ pc' = IF CompleteLines(text) = <<>> THEN "reading" ELSE "lines"
  /\ wire' = SubSeq(wire, n + 1, Len(wire))
  /\ UNCHANGED <<serverVars, callerVars, fields, config, callNo, callVars, sessionId, requests, responses,
                 primary, result, cleanup, warnings, conn, sent, serverClosed, exit,
                 chunks, yielded, notified>>

\* a decoder that takes the end of the data for a failure
ReadDoneThrows ==
  /\ pc = "reading"
  /\ conn = "open"
  /\ serverClosed
  /\ wire = <<>>
  /\ ExitDecoder("throw", Err("Error", "Event stream ended without completion", 0, "", 0))
  /\ UNCHANGED <<serverVars, callerVars, fields, config, callNo, callVars, sessionId, requests, responses,
                 primary, result, cleanup, warnings, conn, sent, wire, serverClosed,
                 buffer, lines, chunks, yielded, notified>>

\* a decoder that handles what is left in its buffer at the end of the data
ReadDoneFlushing ==
  /\ pc = "reading"
  /\ conn = "open"
  /\ serverClosed
  /\ wire = <<>>
  /\ IF buffer # <<>>
     THEN /\ lines' = <<buffer>>
          /\ buffer' = <<>>
          /\ pc' = "lines"
          /\ exit' = exit
     ELSE /\ ExitDecoder("return", NoError)
          /\ UNCHANGED <<buffer, lines>>
  /\ UNCHANGED <<serverVars, callerVars, fields, config, callNo, callVars, sessionId, requests, responses,
                 primary, result, cleanup, warnings, conn, sent, wire, serverClosed,
                 chunks, yielded, notified>>

\* reader.read() gives done: break
ReadDone ==
  /\ pc = "reading"
  /\ conn = "open"
  /\ serverClosed
  /\ wire = <<>>
  /\ ExitDecoder("return", NoError)
  /\ UNCHANGED <<serverVars, callerVars, fields, config, callNo, callVars, sessionId, requests, responses,
                 primary, result, cleanup, warnings, conn, sent, wire, serverClosed,
                 buffer, lines, chunks, yielded, notified>>

\* reader.read() rejects: the connection broke
ReadFails ==
  /\ pc = "reading"
  /\ conn = "open"
  /\ ExitDecoder("throw", NetworkError)
  /\ UNCHANGED <<serverVars, callerVars, fields, config, callNo, callVars, sessionId, requests, responses,
                 primary, result, cleanup, warnings, conn, sent, wire, serverClosed,
                 buffer, lines, chunks, yielded, notified>>

\* back to the loop over the lines, or to reader.read() when none is left
Continue(rest) == IF rest = <<>> THEN "reading" ELSE "lines"

(***************************************************************************)
(* The decoder handles the next line of the read.                          *)
(***************************************************************************)
ProcessLine ==
  /\ pc = "lines"
  /\ LET step == HandleLine(Head(lines))
     IN CASE step.does = "yield" ->
               /\ lines' = Tail(lines)
               /\ yielded' = Append(yielded, step.text)
               /\ pc' = "yielded"
               /\ UNCHANGED <<warnings, exit>>
          [] step.does = "return" ->
               /\ ExitDecoder("return", NoError)
               /\ UNCHANGED <<lines, yielded, warnings>>
          [] step.does = "warn" ->
               /\ lines' = Tail(lines)
               /\ warnings' = Append(warnings, "malformed")
               /\ pc' = Continue(Tail(lines))
               /\ UNCHANGED <<yielded, exit>>
          [] OTHER ->
               /\ lines' = Tail(lines)
               /\ pc' = Continue(Tail(lines))
               /\ UNCHANGED <<yielded, warnings, exit>>
  /\ UNCHANGED <<serverVars, callerVars, fields, config, callNo, callVars, sessionId, requests, responses,
                 primary, result, cleanup, conn, sent, wire, serverClosed,
                 buffer, chunks, notified>>

(***************************************************************************)
(* The consumer of the generator asks for the next increment:              *)
(* collectResponse pushes the chunk it got, the decoder resumes after its  *)
(* yield and notifies the callback.                                        *)
(***************************************************************************)
ConsumerNext ==
  /\ pc = "yielded"
  \* a return() that was queued on the generator runs as soon as it yields
  /\ ~(cancelRequested /\ kind = "stream")
  /\ chunks' = IF kind = "generate" /\ yielded[Len(yielded)] # ""
               THEN Append(chunks, yielded[Len(yielded)])
               ELSE chunks
  /\ notified' = IF runManager THEN Append(notified, yielded[Len(yielded)])
                 ELSE notified
  /\ pc' = Continue(lines)
  /\ UNCHANGED <<serverVars, callerVars, fields, config, callNo, callVars, sessionId, requests, responses,
                 primary, result, cleanup, warnings, conn, sent, wire, serverClosed,
                 buffer, lines, exit, yielded>>

\* The consumer of a streaming call stops iterating: return() on the
\* generator runs the finally blocks from the yield.
ConsumerReturn ==
  /\ pc = "yielded"
  /\ kind = "stream"
  /\ ExitDecoder("abandon", NoError)
  /\ UNCHANGED <<serverVars, callerVars, fields, config, callNo, callVars, sessionId, requests, responses,
                 primary, result, cleanup, warnings, conn, sent, wire, serverClosed,
                 buffer, lines, chunks, yielded, notified>>

\* what the try block of the call comes to once the decoder has ended
AfterDecoder(k, ex, collected) ==
  CASE ex.how = "throw" -> Failure(ex.error)
    [] ex.how = "abandon" -> Abandoned
    [] OTHER -> IF k = "generate" THEN Success(Join(collected)) ELSE Success("")

(***************************************************************************)
(* reader.cancel() settles (a rejection is swallowed), the lock is         *)
(* released, and the finally block of the call issues the delete.          *)
(***************************************************************************)
\* the reader is cancelled only where the loop is left by break or return
ReleaseReaderInLoop(how) == IF how = "abandon" THEN "open" ELSE "cancelled"

\* finally { await reader.cancel().catch(...); reader.releaseLock() }
ReleaseReader(how) == "cancelled"

\* what reader.cancel() rejects with when the cancellation fails
CancelError == [name |-> "TypeError", msg |-> "cancel failed", status |-> 0, body |-> "",
                seconds |-> 0]

\* await reader.cancel() without its catch: a rejection replaces the outcome
CancelOutcomeUncaught(ok, outcome) == IF ok THEN outcome ELSE Failure(CancelError)

\* await reader.cancel().catch(() => {}): resolved (ok) or rejected, the
\* outcome of the decoder stands
CancelOutcome(ok, outcome) == outcome

\* a call that issues its delete while the reader is still to be cancelled
CancelSettlesAfterDelete(ok) ==
  /\ pc = "cancelling"
  /\ conn' = conn
  /\ sessionId' = sessionId
  /\ EnterFinally(CancelOutcome(ok, AfterDecoder(kind, exit, chunks)))
  /\ UNCHANGED <<serverVars, callerVars, fields, config, callNo, callVars, responses, cleanup, warnings, sent,
                 wire, serverClosed, buffer, lines, exit, chunks, yielded,
                 notified>>

CancelSettles(ok) ==
  /\ pc = "cancelling"
  /\ conn' = ReleaseReader(exit.how)
  /\ sessionId' = sessionId
  /\ EnterFinally(CancelOutcome(ok, AfterDecoder(kind, exit, chunks)))
  /\ UNCHANGED <<serverVars, callerVars, fields, config, callNo, callVars, responses, cleanup, warnings, sent,
                 wire, serverClosed, buffer, lines, exit, chunks, yielded,
                 notified>>

(***************************************************************************)
(* DELETE /session/{id} settles: the call ends.                            *)
(***************************************************************************)
DeleteSettles(resp) ==
  /\ pc = "deleting"
  /\ responses' = Append(responses, resp)
  /\ LET d == deleteSession(kind, resp)
     IN /\ cleanup' = d
        /\ warnings' = IF d.warned THEN Append(warnings, "cleanup") ELSE warnings
        /\ result' = Finally(primary, d)
  /\ pc' = "done"
  /\ sessions' = IF resp.outcome = "ok" THEN sessions \ {Template(sessionId)}
                 ELSE sessions
  /\ sessionCounter' = sessionCounter
  /\ UNCHANGED <<early, callerVars, fields, config, callNo, callVars, sessionId, requests, primary,
                 streamVars>>

(***************************************************************************)
(* The environment of a specification: which calls are made and what the   *)
(* server and the network may do.                                          *)
(*   configs, kinds, messages, runManagers   the instance and its calls    *)
(*   calls     how many calls are made                                     *)
(*   faults    whether create, prompt, stream-open and delete requests may *)
(*             fail or be answered with unexpected bodies                  *)
(*   frames    the frames the server writes                                *)
(*   cuts      whether a read may end anywhere (TRUE) or gives all that    *)
(*             has been written (FALSE)                                    *)
(*   server    "mock": POST /session is answered by the mock server, which *)
(*             names every session it creates after its counter; "any": it *)
(*             is answered with any of CreateResponses                     *)
(***************************************************************************)
Healthy(resps) ==
  { r \in resps : /\ r.outcome = "ok"
                  /\ r.stream
                  /\ \/ r.body \in {QueuedBody, NoBody} \cup
                          { Body(TRUE, FALSE, Str(s), FALSE, <<>>) : s \in SessionIds }
                     \/ r.body.hasParts }

Allowed(env, resps) == IF env.faults THEN resps ELSE Healthy(resps)

Cuts(env, n) == IF env.cuts THEN 1..n ELSE {n} \ {0}

CreateAnswers(env) ==
  IF env.server = "mock"
  THEN {OkResponse(MockSession(sessionCounter + 1))}
       \cup (IF env.faults THEN HttpErrors \cup Rejections ELSE {})
  ELSE Allowed(env, CreateResponses)

InitOf(env) ==
  /\ Init
  /\ config \in env.configs
  /\ fields = FieldsOf(config)

NextOf(env) ==
  \/ /\ callNo < env.calls
     /\ pc \in {"idle", "done"}
     /\ \E k \in env.kinds, msgs \in env.messages, rm \in env.runManagers :
          StartCall(k, msgs, rm)
  \/ \E resp \in CreateAnswers(env) : CreateSettles(resp)
  \/ \E resp \in Allowed(env, PromptResponses(kind)) : PromptSettles(resp)
  \/ \E resp \in Allowed(env, EventResponses) : OpenSettles(resp)
  \/ \E key \in env.frames : ServerSend(key)
  \/ ServerClose
  \/ \E n \in Cuts(env, Len(wire)) : ReadChunk(n)
  \/ ReadDone
  \/ ReadFails
  \/ ProcessLine
  \/ ConsumerNext
  \/ ConsumerReturn
  \/ \E ok \in BOOLEAN : CancelSettles(ok)
  \/ \E resp \in Allowed(env, DeleteResponses) : DeleteSettles(resp)

\* The lifecycle of calls of every kind, with every fault.
Lifecycle ==
  [configs |-> {c \in Configs : c.apiKey # ""}, kinds |-> Kinds,
   messages |-> {m \in CallMessages : ~m[1].content.isArray},
   runManagers |-> BOOLEAN, calls |-> MaxCalls, faults |-> TRUE,
   frames |-> FrameKeys \cap {"text-a", "text-empty", "completed", "malformed"},
   cuts |-> FALSE, server |-> "any"]

Spec == InitOf(Lifecycle) /\ [][NextOf(Lifecycle)]_vars

\* The streaming calls of the lifecycle that are made with a callback
\* manager, with the progress the runtime
\* guarantees once a call is tearing down: the promise of reader.cancel()
\* settles, and the DELETE request settles because the requestTimeout timer
\* aborts it at the latest.
Streaming == [Lifecycle EXCEPT !.kinds = {"stream"}, !.runManagers = {TRUE}]

SpecStream ==
  /\ InitOf(Streaming)
  /\ [][NextOf(Streaming)]_vars
  /\ WF_vars(\E ok \in BOOLEAN : CancelSettles(ok))
  /\ WF_vars(\E resp \in DeleteResponses : DeleteSettles(resp))

\* The decoding of event streams by healthy calls of the event-stream
\* implementation, with every cut of the stream into reads.
Decoding ==
  [configs |-> {c \in Configs : c.apiKey = ""}, kinds |-> {"generate", "stream"},
   messages |-> {m \in CallMessages : ~m[1].content.isArray},
   runManagers |-> {TRUE}, calls |-> 1, faults |-> FALSE,
   frames |-> FrameKeys \cap {"text-a", "text-b", "completed", "malformed", "blank"},
   cuts |-> TRUE, server |-> "any"]

SpecDecode == InitOf(Decoding) /\ [][NextOf(Decoding)]_vars

\* Calls one after the other against the mock server, which gives every
\* session a name of its own; every request may fail.
Sessions ==
  [Lifecycle EXCEPT !.server = "mock", !.runManagers = {FALSE},
                    !.frames = FrameKeys \cap {"text-a", "completed"}]

SpecSessions == InitOf(Sessions) /\ [][NextOf(Sessions)]_vars

\* Instances constructed with each of the arguments of FieldSets; an
\* instance that was constructed serves one healthy call of an operation of
\* its implementation.
Constructing ==
  [configs |-> {}, kinds |-> {},
   messages |-> {m \in CallMessages : ~m[1].content.isArray},
   runManagers |-> {FALSE}, calls |-> 1, faults |-> FALSE,
   frames |-> FrameKeys \cap {"text-a", "completed"}, cuts |-> FALSE,
   server |-> "mock"]

NextConstruct ==
  \/ \E impl \in Implementations, f \in FieldSets : Construct(impl, f)
  \/ NextOf([Constructing EXCEPT !.kinds = KindsOf(config.impl)])

SpecConstruct == InitNew /\ [][NextConstruct]_vars

\* One healthy call with each of the message lists of the translator: the
\* parts it makes are the body of the prompt request.
Translating ==
  [configs |-> {c \in Configs : c.apiKey = ""}, kinds |-> {"stream", "sync"},
   messages |-> TranslatorMessages, runManagers |-> {FALSE}, calls |-> 1,
   faults |-> FALSE, frames |-> FrameKeys \cap {"text-a"}, cuts |-> FALSE,
   server |-> "mock"]

SpecTranslate == InitOf(Translating) /\ [][NextOf(Translating)]_vars

\* Healthy calls of every kind that are answered with events and parts the
\* program has no use for, among text and the completed event.
Ignoring ==
  [configs |-> {c \in Configs : c.apiKey = ""}, kinds |-> Kinds,
   messages |-> {m \in CallMessages : ~m[1].content.isArray},
   runManagers |-> {TRUE}, calls |-> 1, faults |-> FALSE,
   frames |-> FrameKeys \cap {"text-a", "text-empty", "tool", "running", "connected",
                              "completed"},
   cuts |-> FALSE, server |-> "any"]

SpecIgnore == InitOf(Ignoring) /\ [][NextOf(Ignoring)]_vars

\* Healthy calls that read an event stream on which text may follow a
\* terminator, in the same read or in a later one.
Terminating ==
  [configs |-> {c \in Configs : c.apiKey = ""}, kinds |-> {"generate", "stream"},
   messages |-> {m \in CallMessages : ~m[1].content.isArray},
   runManagers |-> {TRUE}, calls |-> 1, faults |-> FALSE,
   frames |-> FrameKeys \cap {"text-a", "done", "completed"},
   cuts |-> TRUE, server |-> "any"]

SpecTerminate == InitOf(Terminating) /\ [][NextOf(Terminating)]_vars

\* Healthy calls that read an event stream whose last line may lack its
\* newline when the server ends the stream.
Truncating ==
  [configs |-> {c \in Configs : c.apiKey = ""}, kinds |-> {"generate", "stream"},
   messages |-> {m \in CallMessages : ~m[1].content.isArray},
   runManagers |-> {TRUE}, calls |-> 1, faults |-> FALSE,
   frames |-> FrameKeys \cap {"text-b", "unterminated", "done-open", "completed"},
   cuts |-> TRUE, server |-> "any"]

SpecTruncate == InitOf(Truncating) /\ [][NextOf(Truncating)]_vars

(***************************************************************************)
(* The progress callback throws.  `await runManager?.handleLLMNewToken()`  *)
(* follows the yield inside the try block whose catch logs "Skipping       *)
(* malformed SSE data" and continues with the next line.                   *)
(***************************************************************************)
CallbackError == Err("Error", "callback failed", 0, "", 0)

\* the notification outside the try block: its error ends the decoder
CallbackFailureUncaught(e) == Step("throw", "")

\* what the decoder does with an error of the callback
CallbackFailure(e) == Step("warn", "")

CallbackThrows ==
  /\ pc = "yielded"
  /\ runManager
  /\ ~(cancelRequested /\ kind = "stream")
  /\ chunks' = IF kind = "generate" /\ yielded[Len(yielded)] # ""
               THEN Append(chunks, yielded[Len(yielded)])
               ELSE chunks
  /\ notified' = Append(notified, yielded[Len(yielded)])
  /\ IF CallbackFailure(CallbackError).does = "warn"
     THEN /\ warnings' = Append(warnings, "malformed")
          /\ pc' = Continue(lines)
          /\ exit' = exit
     ELSE /\ ExitDecoder("throw", CallbackError)
          /\ warnings' = warnings
  /\ UNCHANGED <<serverVars, callerVars, fields, config, callNo, callVars, sessionId, requests,
                 responses, primary, result, cleanup, conn, sent, wire, serverClosed,
                 buffer, lines, yielded>>

\* Healthy calls that read a well-formed event stream with a progress
\* callback that may throw.
Notifying ==
  [configs |-> {c \in Configs : c.apiKey = ""}, kinds |-> {"generate", "stream"},
   messages |-> {m \in CallMessages : ~m[1].content.isArray},
   runManagers |-> {TRUE}, calls |-> 1, faults |-> FALSE,
   frames |-> FrameKeys \cap {"text-a", "text-b", "completed"},
   cuts |-> FALSE, server |-> "any"]

NextCallback == CallbackThrows \/ NextOf(Notifying)

SpecCallback == InitOf(Notifying) /\ [][NextCallback]_vars

(***************************************************************************)
(* The operations of an instance besides its calls.  The caller may invoke *)
(* them at any moment: before a call, while one is awaiting, after one.    *)
(***************************************************************************)
\* a cleanup() that deletes the session of the current call
CleanupDeleting ==
  /\ opCount.cleanup < MaxOps
  /\ opCount' = [opCount EXCEPT !.cleanup = @ + 1]
  /\ requests' = Append(requests, DeleteRequest(config, sessionId))
  /\ sessions' = sessions \ {Template(sessionId)}
  /\ UNCHANGED <<sessionCounter, early, cancelRequested, options, fields, config, callNo, callVars, pc,
                 sessionId, responses, primary, result, cleanup, warnings, streamVars>>

\* async cleanup() { }: the deprecated method has an empty body
Cleanup ==
  /\ opCount.cleanup < MaxOps
  /\ opCount' = [opCount EXCEPT !.cleanup = @ + 1]
  /\ UNCHANGED <<serverVars, cancelRequested, options, fields, config, callNo, callVars, pc,
                 sessionId, requests, responses, primary, result, cleanup, warnings,
                 streamVars>>

\* the tools a caller may bind
ToolLists == { <<>>, <<"calculator">> }

\* a bindTools that turns the temperature to 0 when tools are bound
bindToolsRetuning(cfg, tools) ==
  IF tools = <<>> THEN cfg ELSE [cfg EXCEPT !.temperature = Num("0")]

\* bindTools(_tools, _kwargs) { return this }: the configuration of the
\* instance it returns
bindTools(cfg, tools) == cfg

\* bindTools is a method of OpenCodeChatModel.ts, the implementation whose
\* calls are of kind "sync"
BindTools(tools) ==
  /\ kind = "sync"
  /\ opCount.bindTools < MaxOps
  /\ opCount' = [opCount EXCEPT !.bindTools = @ + 1]
  /\ config' = bindTools(config, tools)
  /\ UNCHANGED <<serverVars, cancelRequested, options, fields, callNo, callVars, pc,
                 sessionId, requests, responses, primary, result, cleanup, warnings,
                 streamVars>>

\* One call of each kind by an instance with each setting of temperature and
\* maxTokens, every request of which may fail, with cleanup() and bindTools()
\* invoked at any moment.
Framing ==
  [configs |-> TunedConfigs, kinds |-> Kinds,
   messages |-> {m \in CallMessages : ~m[1].content.isArray},
   runManagers |-> {FALSE}, calls |-> 1, faults |-> TRUE,
   frames |-> FrameKeys \cap {"text-a", "completed"}, cuts |-> FALSE,
   server |-> "any"]

NextFrame ==
  \/ Cleanup
  \/ \E tools \in ToolLists : BindTools(tools)
  \/ NextOf(Framing)

SpecFrame == InitOf(Framing) /\ [][NextFrame]_vars

(***************************************************************************)
(* The caller asks for the call to be cancelled while the decoder awaits   *)
(* reader.read(): it aborts the signal of its call options, or calls       *)
(* return() on the generator of a streaming call.  _generate and           *)
(* _streamResponseChunks do not read their _options, the fetch of          *)
(* streamResponse has no signal, and a return() on a generator that is     *)
(* awaiting is queued until the generator yields: the request is recorded  *)
(* and no step of the program is enabled by it.                            *)
(***************************************************************************)
CallerCancels ==
  /\ pc = "reading"
  /\ kind \in {"generate", "stream"}
  /\ ~cancelRequested
  /\ cancelRequested' = TRUE
  /\ UNCHANGED <<serverVars, opCount, options, fields, config, callNo, callVars, pc, sessionId,
                 requests, responses, primary, result, cleanup, warnings, streamVars>>

\* One healthy call that reads the event stream, which its caller may ask to
\* cancel.
Cancelling ==
  [configs |-> {c \in Configs : c.apiKey = ""}, kinds |-> {"generate", "stream"},
   messages |-> {m \in CallMessages : ~m[1].content.isArray},
   runManagers |-> {TRUE}, calls |-> 1, faults |-> FALSE,
   frames |-> FrameKeys \cap {"text-a", "completed"}, cuts |-> FALSE,
   server |-> "any"]

NextCancel == CallerCancels \/ NextOf(Cancelling)

\* The steps the runtime takes by itself: requests settle, reads of data
\* that arrived or of a closed stream resolve, the loop over the lines and
\* the consumer go on, the promise of reader.cancel() settles.  What the
\* server sends, and whether it closes the stream, is up to the server.
Progress ==
  \/ \E resp \in CreateAnswers(Cancelling) : CreateSettles(resp)
  \/ \E resp \in Healthy(PromptResponses(kind)) : PromptSettles(resp)
  \/ \E resp \in Healthy(EventResponses) : OpenSettles(resp)
  \/ \E n \in Cuts(Cancelling, Len(wire)) : ReadChunk(n)
  \/ ReadDone \/ ProcessLine \/ ConsumerNext \/ ConsumerReturn
  \/ \E ok \in BOOLEAN : CancelSettles(ok)
  \/ \E resp \in Healthy(DeleteResponses) : DeleteSettles(resp)

SpecCancel ==
  /\ InitOf(Cancelling)
  /\ [][NextCancel]_vars
  /\ WF_vars(Progress)

(***************************************************************************)
(* Another call at the same server.  It creates a session of its own, and  *)
(* what the server produces for that session goes out on GET /event as     *)
(* well: the request of streamResponse names no session, so the server     *)
(* has one event stream for all of them.                                   *)
(***************************************************************************)
OtherCreates ==
  /\ sessionCounter < MaxCalls
  /\ sessionCounter' = sessionCounter + 1
  /\ sessions' = sessions \cup {MockId(sessionCounter + 1)}
  /\ UNCHANGED <<early, callerVars, fields, config, callNo, callVars, pc, sessionId, requests,
                 responses, primary, result, cleanup, warnings, streamVars>>

OtherSends ==
  /\ sessions \ {Template(sessionId)} # {}
  /\ ServerSend("text-other")

\* One healthy call that reads the event stream while another call has a
\* session at the same mock server.
Sharing ==
  [configs |-> {c \in Configs : c.apiKey = ""}, kinds |-> {"generate", "stream"},
   messages |-> {m \in CallMessages : ~m[1].content.isArray},
   runManagers |-> {FALSE}, calls |-> 1, faults |-> FALSE,
   frames |-> FrameKeys \cap {"text-a", "completed"}, cuts |-> FALSE,
   server |-> "mock"]

NextShared == OtherCreates \/ OtherSends \/ NextOf(Sharing)

SpecShared == InitOf(Sharing) /\ [][NextShared]_vars

(***************************************************************************)
(* The node.  supplyData reads the parameters and the options of the node  *)
(* and constructs the model of OpenCodeChatModel.ts with them; -1 in the   *)
(* Maximum Tokens option stands for no limit.                              *)
(***************************************************************************)
NodeOptions == { [maxTokens |-> m] : m \in {Undefined, Num("-1"), Num("0"), Num("1000")} }

\* maxTokens: options.maxTokens, whatever it is
supplyDataPassing(opts) ==
  Fields(Str("http://localhost:4096"), Undefined, Str("build"), Str("anthropic"),
         Str("claude-3-5-sonnet-20241022"), Undefined, opts.maxTokens)

\* the argument of new OpenCodeChatModel({...}) in supplyData
supplyData(opts) ==
  Fields(Str("http://localhost:4096"), Undefined, Str("build"), Str("anthropic"),
         Str("claude-3-5-sonnet-20241022"), Undefined,
         IF opts.maxTokens # Num("-1") THEN opts.maxTokens ELSE Undefined)

SupplyData(opts) ==
  /\ pc = "new"
  /\ options' = opts
  /\ fields' = supplyData(opts)
  /\ LET r == constructor("OpenCodeChatModel.ts", supplyData(opts))
     IN IF r.threw
        THEN /\ pc' = "failed"
             /\ result' = Failure(r.error)
             /\ config' = config
        ELSE /\ pc' = "idle"
             /\ result' = result
             /\ config' = r.value
  /\ UNCHANGED <<serverVars, opCount, cancelRequested, callNo, callVars, sessionId,
                 requests, responses, primary, cleanup, warnings, streamVars>>

\* The calls of the model a node supplied: _generate, every request of
\* which may fail.
Supplied ==
  [Lifecycle EXCEPT !.configs = {}, !.kinds = {"sync"}, !.runManagers = {FALSE}]

NextNode ==
  \/ \E opts \in NodeOptions : SupplyData(opts)
  \/ /\ callNo < Supplied.calls
     /\ pc \in {"idle", "done"}
     /\ \E msgs \in Supplied.messages : StartCall("sync", msgs, FALSE)
  \/ \E resp \in CreateAnswers(Supplied) : CreateSettles(resp)
  \/ \E resp \in PromptResponses("sync") : PromptSettles(resp)
  \/ \E resp \in DeleteResponses : DeleteSettles(resp)

SpecNode == InitNew /\ [][NextNode]_vars

(***************************************************************************)
(* The server works on a prompt from the moment it has accepted it, and    *)
(* the call opens its event stream only after sendPrompt has returned.     *)
(* What the server emits for the session in between goes to the event      *)
(* streams that are open then: the request of streamResponse names no      *)
(* session and no position in the stream from which the server could       *)
(* resume, so the connection of the call carries what is written after it  *)
(* was opened.                                                             *)
(***************************************************************************)
ServerEmitsEarly(key) ==
  /\ pc = "opening"
  /\ Len(early) < MaxFrames
  /\ early' = Append(early, key)
  /\ UNCHANGED <<sessionCounter, sessions, callerVars, fields, config, callNo, callVars, pc,
                 sessionId, requests, responses, primary, result, cleanup, warnings,
                 streamVars>>

\* One healthy call that reads the event stream of a server that may emit
\* before the stream is open.
Racing == [Cancelling EXCEPT !.runManagers = {FALSE}]

NextEarly ==
  \/ \E key \in Racing.frames : ServerEmitsEarly(key)
  \/ NextOf(Racing)

SpecEarly ==
  /\ InitOf(Racing)
  /\ [][NextEarly]_vars
  /\ WF_vars(Progress)

(***************************************************************************)
(* Properties.                                                             *)
(***************************************************************************)
Ops == [i \in DOMAIN requests |-> requests[i].op]
Count(op) == Cardinality({i \in DOMAIN requests : requests[i].op = op})
Answered(i) == Len(responses) >= i

\* C1: a call that obtained a session id (createSession returned a string)
\* has issued the session delete exactly once when it ends, and never more
\* than once.
C1_DeleteExactlyOnce ==
  /\ Count("delete") <= 1
  /\ (pc = "done" /\ sessionId.t = "string") => Count("delete") = 1

\* C2: the requests of a call are issued in the order create, prompt, event
\* stream, delete: the prompt only after createSession returned, the stream
\* only after the prompt was answered 2xx, the delete last, whatever came
\* before it; a call of the event-stream implementation that got past
\* createSession ends with the delete.
C2_RequestOrder ==
  /\ Ops \in { <<>>, <<"create">>, <<"create", "prompt">>,
               <<"create", "prompt", "delete">>,
               <<"create", "prompt", "event">>,
               <<"create", "prompt", "event", "delete">> }
  /\ Len(requests) >= 2 => (Answered(1) /\ responses[1].outcome = "ok")
  /\ Count("event") = 1 => (Answered(2) /\ responses[2].outcome = "ok")
  /\ (pc = "done" /\ kind # "sync" /\ Len(requests) >= 2)
       => Ops[Len(requests)] = "delete"

C2_Witness ==
  /\ pc = "done"
  /\ Ops = <<"create", "prompt", "event", "delete">>
  /\ result.status = "ok"

\* C3: deleteSession returns without raising whatever the DELETE request came
\* to: a 2xx response, another status, a network error, a timeout.
C3_DeleteNeverThrows ==
  (pc = "done" /\ Count("delete") = 1)
    => (cleanup.ran /\ ~cleanup.threw
        /\ responses[Len(responses)].outcome \in {"ok", "http", "network", "timeout"})

C3_Witness ==
  /\ pc = "done"
  /\ Count("delete") = 1
  /\ responses[Len(responses)].outcome = "timeout"
  /\ ~cleanup.threw

\* C4: a failed delete does not change what the caller gets: the result of
\* the call is the outcome of the primary path, an error or a success.
C4_CleanupNeverMasks ==
  (pc = "done" /\ Count("delete") = 1 /\ responses[Len(responses)].outcome # "ok")
    => (result = primary /\ result.status # "pending")

C4_Witness ==
  /\ pc = "done"
  /\ Count("delete") = 1
  /\ responses[Len(responses)].outcome = "network"
  /\ primary.status = "error"
  /\ primary.error.status = 500
  /\ result = primary

\* C5: when POST /session is answered 2xx with a body whose id is missing or
\* is no string, the call fails with the protocol error and issues no prompt
\* request.
C5_MissingIdRejected ==
  (Answered(1) /\ responses[1].outcome = "ok" /\ responses[1].body.valid
   /\ responses[1].body.id.t # "string")
    => /\ Count("prompt") = 0
       /\ pc = "done"
       /\ result.status = "error"
       /\ result.error.msg = "Failed to create session: missing or invalid id"

\* C6: when the prompt request times out, the call fails with a timeout error
\* that names the configured duration, and the session delete is still
\* issued.
C6_PromptTimeoutNamed ==
  (pc = "done" /\ Answered(2) /\ responses[2].outcome = "timeout")
    => /\ result.status = "error"
       /\ result.error.seconds = requestTimeout \div 1000
       /\ Count("delete") = 1

\* The texts a stream of frames carries before its first terminator.
RECURSIVE FrameTexts(_)
FrameTexts(frames) ==
  IF frames = <<>> THEN <<>>
  ELSE IF Head(frames) \in {"completed", "done"} THEN <<>>
  ELSE (IF Head(frames) = "text-a" THEN <<"a">>
        ELSE IF Head(frames) = "text-b" THEN <<"b">>
        ELSE <<>>) \o FrameTexts(Tail(frames))

\* Text events (and the empty lines that end SSE frames), then completed.
WellFormed(frames) ==
  /\ frames # <<>>
  /\ frames[Len(frames)] = "completed"
  /\ \A i \in 1..(Len(frames) - 1) : frames[i] \in {"text-a", "text-b", "blank"}

\* C7: for a well-formed stream of N text events followed by the completed
\* event, the single-shot result is the N texts joined in arrival order, and
\* the streaming call yields exactly those N texts in that order.
C7_WellFormedStreamDecoded ==
  (pc = "done" /\ WellFormed(sent) /\ exit.how = "return")
    => /\ yielded = FrameTexts(sent)
       /\ kind = "generate" => result = Success(Join(FrameTexts(sent)))
       /\ kind = "stream" => result.status = "ok"

C7_Witness ==
  /\ pc = "done"
  /\ kind = "generate"
  /\ sent = <<"text-b", "text-a", "completed">>
  /\ result = Success("ba")

HasTerminator(frames) ==
  \E i \in DOMAIN frames : frames[i] \in {"completed", "done"}

\* C8: a data frame whose payload does not parse is skipped: it does not end
\* the decoding (the decoder returns only on a terminator or at the end of
\* the data, and fails only when a read fails), and once the decoder has
\* handled all that was written, the texts of the valid frames around it
\* have been yielded in order.
C8_MalformedFrameSkipped ==
  (\E i \in DOMAIN sent : sent[i] = "malformed")
    => /\ (pc = "reading" /\ wire = <<>>) => yielded = FrameTexts(sent)
       /\ exit.how = "return" => (HasTerminator(sent) \/ (serverClosed /\ wire = <<>>))
       /\ exit.how = "throw" => exit.error = NetworkError
       /\ pc = "done" => (result.status = "error" <=> exit.how = "throw")

C8_Witness ==
  /\ sent = <<"text-a", "malformed", "text-b">>
  /\ pc = "reading"
  /\ wire = <<>>
  /\ yielded = <<"a", "b">>
  /\ warnings = <<"malformed">>

\* C9: a single-shot call never succeeds with the empty string as its text.
C9_EmptyResponseFails ==
  (pc = "done" /\ kind \in {"generate", "sync"} /\ result.status = "ok")
    => result.text # ""

\* C10: once the consumer of a streaming call has stopped iterating, the
\* decoder produces no further increment and notifies no further text, the
\* call only goes on to cancel the connection and to delete the session, and
\* it does end, with the connection cancelled and the delete issued.
C10_AbandonTearsDown ==
  /\ [](exit.how = "abandon"
          => /\ pc \in {"cancelling", "deleting", "done"}
             /\ pc # "cancelling" => (conn = "cancelled" /\ Count("delete") = 1)
             /\ pc = "done" => result = Abandoned)
  /\ [][(exit.how = "abandon" /\ callNo' = callNo)
          => (yielded' = yielded /\ notified' = notified /\ exit' = exit)]_vars
  /\ (exit.how = "abandon")
       ~> (pc = "done" /\ conn = "cancelled" /\ Count("delete") = 1)

C10_Witness ==
  /\ pc = "done"
  /\ exit.how = "abandon"
  /\ sent = <<"text-a">>
  /\ yielded = <<"a">>
  /\ conn = "cancelled"
  /\ Count("delete") = 1

\* the requests that name the session id in their URL
Addresses(req, id) ==
  req.url \in { config.baseUrl \o "/session/" \o id,
                config.baseUrl \o "/session/" \o id \o "/prompt",
                config.baseUrl \o "/session/" \o id \o "/message" }

AllStrings(msgs) == \A i \in DOMAIN msgs : ~msgs[i].content.isArray
AllLists(msgs) == \A i \in DOMAIN msgs : msgs[i].content.isArray

\* C12: for messages whose content is a string, the parts of the prompt
\* request are as many as the messages, and the i-th part is a text part with
\* the content of the i-th message, the empty string included.
C12_StringMessagesTranslated ==
  (Len(requests) >= 2 /\ AllStrings(messages))
    => LET parts == requests[2].body.parts
       IN /\ Len(parts) = Len(messages)
          /\ \A i \in DOMAIN messages :
               parts[i].type = "text" /\ parts[i].text = messages[i].content.str

C12_Witness ==
  /\ pc = "sending"
  /\ Len(messages) = 2
  /\ messages[1].content = StringContent("b")
  /\ messages[2].content = StringContent("")
  /\ requests[2].body.parts = <<TextPart("b"), TextPart("")>>

\* the items of the messages, message by message, item by item
RECURSIVE Flatten(_)
Flatten(msgs) ==
  IF msgs = <<>> THEN <<>> ELSE Head(msgs).content.items \o Flatten(Tail(msgs))

IsTextual(item) == item.tag \in {"string", "text"}

\* C13: for messages with list content, the parts of the prompt request are
\* the text parts of the items that are strings or tagged text, in the order
\* of the messages and of the items in them; the items with another tag leave
\* no part and do not keep the call from issuing the prompt request.
C13_ListMessagesTranslated ==
  AllLists(messages)
    => /\ pc \notin {"idle", "creating"} => Len(requests) >= 2
       /\ Len(requests) >= 2
            => LET kept == SelectSeq(Flatten(messages), IsTextual)
                   parts == requests[2].body.parts
               IN /\ Len(parts) = Len(kept)
                  /\ \A i \in DOMAIN kept :
                       parts[i].type = "text" /\ parts[i].text = kept[i].text

C13_Witness ==
  /\ pc = "sending"
  /\ Len(messages) = 2
  /\ messages[1].content = ListContent(<<Item("string", "s"), Item("image_url", "u")>>)
  /\ messages[2].content = ListContent(<<Item("text", "t")>>)
  /\ requests[2].body.parts = <<TextPart("s"), TextPart("t")>>

\* C14: when the constructor is given a baseUrl that is no absolute URL it
\* throws, in the step of the construction itself, the error that names the
\* invalid baseUrl; no request has been issued and none is issued later, for
\* there is no instance.
C14_InvalidBaseUrlRejected ==
  (pc # "new" /\ fields.baseUrl \in {Str("not-a-url"), Str("")})
    => /\ pc = "failed"
       /\ result.status = "error"
       /\ result.error.msg
            = "Invalid baseUrl: " \o fields.baseUrl.v \o ". Must be a valid URL."
       /\ config = NoConfig
       /\ callNo = 0
       /\ requests = <<>>

C14_Witness ==
  /\ pc = "failed"
  /\ fields.baseUrl = Str("not-a-url")
  /\ fields.providerID = Str("openai")
  /\ fields.modelID = Str("gpt-4")
  /\ result.error.msg = "Invalid baseUrl: not-a-url. Must be a valid URL."
  /\ requests = <<>>

\* a field that is missing, empty, or empty after trimming
Unusable(x) == x.t = "undefined" \/ x.v \in {"", "  "}

\* C15: when the constructor is given no providerID or no modelID, or an
\* empty or blank one, the construction fails; the providerID and modelID of
\* an instance are the ones that were given, never a default.
C15_ProviderAndModelRequired ==
  /\ (pc # "new" /\ (Unusable(fields.providerID) \/ Unusable(fields.modelID)))
       => (pc = "failed" /\ result.status = "error")
  /\ pc \notin {"new", "failed"}
       => /\ fields.providerID = Str(config.providerID)
          /\ fields.modelID = Str(config.modelID)

\* C16: every request of a call (create, prompt, event stream, delete)
\* carries the header Authorization: Bearer <apiKey> and no other
\* Authorization header when the instance was given a non-empty apiKey, and
\* no Authorization header when it was given none.
C16_AuthorizationHeader ==
  \A i \in DOMAIN requests :
    LET auth == { h \in requests[i].headers : h[1] = "Authorization" }
    IN IF fields.apiKey.t = "string" /\ fields.apiKey.v # ""
       THEN auth = { <<"Authorization", "Bearer " \o fields.apiKey.v>> }
       ELSE auth = {}

C16_Witness ==
  /\ pc = "done"
  /\ fields.apiKey = Str("test-key")
  /\ Ops = <<"create", "prompt", "event", "delete">>
  /\ \A i \in 1..4 : <<"Authorization", "Bearer test-key">> \in requests[i].headers

\* C17: when POST /session is answered with a status that is not 2xx, the
\* call has failed with the error that carries that status and the text of
\* the response, and the create request is and stays its only request.
C17_CreateHttpErrorEndsCall ==
  (Answered(1) /\ responses[1].outcome = "http")
    => /\ pc = "done"
       /\ result.status = "error"
       /\ result.error.msg = "Failed to create OpenCode session"
       /\ result.error.status = responses[1].status
       /\ result.error.body = responses[1].text
       /\ Ops = <<"create">>

C17_Witness ==
  /\ pc = "done"
  /\ kind = "generate"
  /\ Len(responses) = 1
  /\ responses[1].outcome = "http"
  /\ result.error.status = 400
  /\ result.error.body = "Bad Request"
  /\ Ops = <<"create">>

\* C18: when the prompt request is answered with a status that is not 2xx,
\* the event stream is not opened, the session delete is issued, and the call
\* fails with the error that carries that status and the text of the
\* response.
C18_PromptHttpErrorDeletes ==
  (Answered(2) /\ responses[2].outcome = "http")
    => /\ Count("event") = 0
       /\ Count("delete") = 1
       /\ primary.status = "error"
       /\ primary.error.msg = "Failed to send prompt to OpenCode"
       /\ primary.error.status = responses[2].status
       /\ primary.error.body = responses[2].text
       /\ pc = "done" => result = primary

\* C19: when POST /session times out, the call fails with an error that is
\* not the transport's error and that names the configured duration in
\* seconds.
C19_CreateTimeoutNamed ==
  (Answered(1) /\ responses[1].outcome = "timeout")
    => /\ pc = "done"
       /\ result.status = "error"
       /\ result.error # NetworkError
       /\ result.error.seconds = requestTimeout \div 1000

\* C20: when GET /event is answered with a status that is not 2xx, the call
\* fails with the error that carries that status and the text of the
\* response; when it is answered 2xx without a body, the call fails with the
\* error "Response body is null"; in both cases no reader was made and the
\* session delete is issued.
C20_StreamOpenFailureDeletes ==
  (Len(requests) >= 3 /\ requests[3].op = "event" /\ Answered(3))
    => /\ responses[3].outcome = "http"
            => /\ primary.status = "error"
               /\ primary.error.msg = "Failed to connect to OpenCode event stream"
               /\ primary.error.status = responses[3].status
               /\ primary.error.body = responses[3].text
       /\ (responses[3].outcome = "ok" /\ ~responses[3].stream)
            => /\ primary.status = "error"
               /\ primary.error.msg = "Response body is null"
               /\ primary.error.status = 0
       /\ (responses[3].outcome = "http" \/ ~responses[3].stream)
            => /\ conn = "none"
               /\ Count("delete") = 1
               /\ pc = "done" => result = primary

C20_Witness ==
  /\ pc = "done"
  /\ kind = "stream"
  /\ Ops = <<"create", "prompt", "event", "delete">>
  /\ responses[3].outcome = "ok"
  /\ ~responses[3].stream
  /\ responses[4].outcome = "ok"
  /\ result.status = "error"
  /\ result.error.msg = "Response body is null"

\* C21: the connection of the event stream is open only while the decoder
\* runs; whichever way the decoder left its loop (a terminator, the end of
\* the data, a failed read, the consumer's return), the call goes on to its
\* delete and to its end with the connection cancelled and with the outcome
\* of the decoder, whether the cancellation resolved or was rejected.
C21_ReaderAlwaysReleased ==
  /\ conn = "open" => pc \in {"reading", "lines", "yielded", "cancelling"}
  /\ (pc \in {"deleting", "done"} /\ Count("event") = 1
       /\ Answered(3) /\ responses[3].outcome = "ok" /\ responses[3].stream)
       => /\ exit.how \in {"return", "throw", "abandon"}
          /\ conn = "cancelled"
          /\ primary = AfterDecoder(kind, exit, chunks)

C21_Witness ==
  /\ pc = "done"
  /\ kind = "generate"
  /\ exit.how = "throw"
  /\ sent = <<"text-a">>
  /\ conn = "cancelled"
  /\ result = Failure(NetworkError)

\* C22: at the end of a call that read the event stream, the callback has
\* been notified of exactly the texts that were yielded, in the same order,
\* also when the consumer stopped early; without a callback nothing is
\* notified.
C22_NotifiedEqualsYielded ==
  (pc = "done" /\ kind \in {"generate", "stream"})
    => notified = (IF runManager THEN yielded ELSE <<>>)

\* C27: when the prompt request is answered with a 2xx status, with or
\* without a JSON body, sendPrompt has issued exactly one POST, to the prompt
\* endpoint of the session id it was given, and does not raise: the call
\* goes on with the text of the answer or with the event stream.
C27_PromptAccepted ==
  (Answered(2) /\ responses[2].outcome = "ok")
    => /\ Count("prompt") = 1
       /\ requests[2].op = "prompt"
       /\ requests[2].method = "POST"
       /\ Addresses(requests[2], Template(sessionId))
       /\ IF kind = "sync"
          THEN primary.status = "ok"
          ELSE Len(requests) >= 3 /\ requests[3].op = "event"

\* C28: a session delete that failed (the request was rejected, timed out,
\* or was answered with a non-2xx status) has been reported by the end of the
\* call, and the call ends with the outcome it had before the delete.
C28_FailedCleanupReported ==
  (pc = "done" /\ Count("delete") = 1 /\ responses[Len(responses)].outcome # "ok")
    => /\ cleanup.warned
       /\ ~cleanup.threw
       /\ result = primary

\* C26: the body of the prompt request holds the translated parts of the
\* messages in their order; it holds a temperature exactly when one is
\* configured and a max-token count exactly when maxTokens is configured,
\* each with the configured value.
C26_PromptBodyParameters ==
  (Len(requests) >= 2 /\ requests[2].op = "prompt")
    => LET body == requests[2].body
       IN /\ body.parts = convertMessagesToPromptParts(messages)
          /\ ("temperature" \in DOMAIN body) <=> (config.temperature # Undefined)
          /\ ("temperature" \in DOMAIN body) => body.temperature = config.temperature
          /\ ("max_tokens" \in DOMAIN body) <=> (config.maxTokens # Undefined)
          /\ ("max_tokens" \in DOMAIN body) => body.max_tokens = config.maxTokens

\* C29: no step of an instance changes its configuration: not a step of a
\* call, whatever it comes to, nor bindTools, nor cleanup; the configuration
\* stays the one the constructor made of its argument.
C29_ConfigurationUnchanged ==
  /\ [][config' = config]_vars
  /\ [](FieldsOf(config) = fields)

C29_Witness ==
  /\ opCount.bindTools = 1
  /\ opCount.cleanup = 1
  /\ pc = "done"
  /\ kind = "sync"
  /\ result.status = "error"
  /\ config.temperature = Num("0.5")
  /\ config.maxTokens = Num("1000")

\* C30: a step of cleanup() issues no request, deletes no session and
\* leaves the call in progress, if any, where it was.
C30_CleanupDoesNothing ==
  [][opCount'.cleanup # opCount.cleanup
       => /\ requests' = requests
          /\ responses' = responses
          /\ sessions' = sessions
          /\ pc' = pc
          /\ sessionId' = sessionId
          /\ result' = result]_vars

\* cleanup() after a call that failed and left its session on the server
C30_Witness ==
  /\ opCount.cleanup = 1
  /\ pc = "done"
  /\ result.status = "error"
  /\ Count("delete") = 1
  /\ responses[Len(responses)].outcome = "http"

\* the frames the decoder has no use for
Ignored == {"text-empty", "tool", "running", "connected"}

\* the parts of a response that are of the text kind
TextKind(parts) == LET IsText(part) == part.type = "text" IN SelectSeq(parts, IsText)

\* C25: frames that carry an event of another type, a part that is not of
\* the text kind or has an empty text, or a session.updated whose status is
\* not completed, add nothing to what is yielded, do not end the decoding
\* and make it neither fail nor log; the parts of a synchronous answer that
\* are not of the text kind leave the call with the outcome it has without
\* them.
C25_OtherEventsIgnored ==
  /\ (kind \in {"generate", "stream"} /\ \E i \in DOMAIN sent : sent[i] \in Ignored)
       => /\ (pc = "reading" /\ wire = <<>>) => yielded = FrameTexts(sent)
          /\ exit.how = "return" => (HasTerminator(sent) \/ (serverClosed /\ wire = <<>>))
          /\ exit.how = "throw" => exit.error = NetworkError
          /\ warnings = <<>>
          /\ (pc = "done" /\ kind = "generate" /\ exit.how = "return")
               => result = Success(Join(FrameTexts(sent)))
  /\ (kind = "sync" /\ pc \in {"deleting", "done"} /\ Answered(2)
       /\ responses[2].outcome = "ok" /\ responses[2].body.hasParts)
       => LET resp == responses[2]
              r == sendPromptSync([resp EXCEPT !.body.parts = TextKind(resp.body.parts)])
          IN primary = IF r.threw THEN Failure(r.error) ELSE Success(r.value.v)

C25_Witness ==
  /\ kind = "stream"
  /\ sent = <<"tool", "text-a", "connected">>
  /\ pc = "reading"
  /\ wire = <<>>
  /\ yielded = <<"a">>
  /\ exit.how = "none"

\* C23: a call that was asked to cancel while it waited on the event stream
\* ends, with the connection cancelled and the session delete issued,
\* whatever the server does.
C23_CancelEndsCall ==
  cancelRequested ~> (pc = "done" /\ conn = "cancelled" /\ Count("delete") = 1)

\* the frames the server wrote for the session of this call
OwnFrames(frames) == LET IsOwn(key) == key # "text-other" IN SelectSeq(frames, IsOwn)

\* C24: with another call's session at the same server, a call yields and
\* returns only texts of the frames that the server produced for its own
\* session: once the decoder has handled all that was written, it has
\* yielded the texts of its own frames and no other, and a single-shot call
\* returns those texts joined.
C24_OnlyOwnSessionText ==
  /\ (pc = "reading" /\ wire = <<>>) => yielded = FrameTexts(OwnFrames(sent))
  /\ (pc = "done" /\ kind = "generate" /\ exit.how = "return")
       => result = Success(Join(FrameTexts(OwnFrames(sent))))

\* C31: a model that a node supplied with -1 as its Maximum Tokens option
\* has no maxTokens and none of its prompt requests holds a max-token
\* count; with another value of the option, the model has that value and
\* each of its prompt requests holds it.
C31_UnlimitedSentinel ==
  (pc \notin {"new", "failed"} /\ options.maxTokens # Undefined)
    => IF options.maxTokens = Num("-1")
       THEN /\ config.maxTokens = Undefined
            /\ \A i \in DOMAIN requests :
                 requests[i].op = "prompt" => "max_tokens" \notin DOMAIN requests[i].body
       ELSE /\ config.maxTokens = options.maxTokens
            /\ \A i \in DOMAIN requests :
                 requests[i].op = "prompt"
                   => /\ "max_tokens" \in DOMAIN requests[i].body
                      /\ requests[i].body.max_tokens = options.maxTokens

C31_Witness ==
  /\ options.maxTokens = Num("-1")
  /\ callNo = 2
  /\ Count("prompt") = 1
  /\ "max_tokens" \notin DOMAIN requests[2].body
  /\ "parts" \in DOMAIN requests[2].body

\* s is an initial piece of t
IsPrefix(s, t) == Len(s) <= Len(t) /\ s = SubSeq(t, 1, Len(s))

\* C32: on a stream with a terminator ([DONE], or session.updated with the
\* status completed), what is yielded and what the callback is notified of
\* are at any moment initial pieces of the texts before the first terminator;
\* once the decoder has returned it has yielded exactly those, and no later
\* step yields or notifies anything.
C32_NothingAfterTerminator ==
  /\ [](HasTerminator(sent)
          => /\ IsPrefix(yielded, FrameTexts(sent))
             /\ IsPrefix(notified, yielded)
             /\ exit.how = "return" => yielded = FrameTexts(sent))
  /\ [][(exit.how = "return" /\ callNo' = callNo)
          => (yielded' = yielded /\ notified' = notified)]_vars

C32_Witness ==
  /\ pc = "done"
  /\ kind = "generate"
  /\ sent = <<"text-a", "done", "text-a">>
  /\ exit.how = "return"
  /\ yielded = <<"a">>
  /\ notified = <<"a">>
  /\ result = Success("a")

\* C33: when the event stream ends without a terminator, the decoder
\* returns (unless a read failed or the consumer had stopped): the call has
\* the increments yielded so far as its outcome, no error, and goes on to
\* its session delete.
C33_EndOfDataEndsNormally ==
  /\ (pc \in {"cancelling", "deleting", "done"} /\ serverClosed /\ wire = <<>>
       /\ ~HasTerminator(sent) /\ exit.how # "abandon"
       /\ exit # [how |-> "throw", error |-> NetworkError])
       => /\ exit = [how |-> "return", error |-> NoError]
          /\ yielded = FrameTexts(sent)
  /\ (pc \in {"deleting", "done"} /\ exit.how = "return" /\ ~HasTerminator(sent))
       => /\ serverClosed
          /\ primary = (IF kind = "generate" THEN Success(Join(yielded)) ELSE Success(""))
          /\ Count("delete") = 1
          /\ pc = "done" => result = primary

C33_Witness ==
  /\ pc = "done"
  /\ kind = "generate"
  /\ sent = <<"text-a", "text-a">>
  /\ serverClosed
  /\ exit.how = "return"
  /\ result = Success("aa")
  /\ Count("delete") = 1

\* all that the server has written, as one text
RECURSIVE Content(_)
Content(frames) ==
  IF frames = <<>> THEN <<>> ELSE FrameTokens(Head(frames)) \o Content(Tail(frames))

\* what the loop over the lines yields for the lines of one read
RECURSIVE DecodeLines(_)
DecodeLines(ls) ==
  IF ls = <<>> THEN <<>>
  ELSE LET step == HandleLine(Head(ls))
       IN IF step.does = "return" THEN <<>>
          ELSE (IF step.does = "yield" THEN <<step.text>> ELSE <<>>)
               \o DecodeLines(Tail(ls))

\* what is yielded when the whole content arrives in a single read
SingleRead(frames) ==
  LET pieces == Split(Content(frames))
  IN DecodeLines(SubSeq(pieces, 1, Len(pieces) - 1))

\* C34: however the content of the stream is cut into reads (between
\* frames, inside a line, inside the data prefix), what has been yielded is
\* an initial piece of what a single read of the whole content yields, and
\* it is all of it once the decoder has read all that was written or has
\* returned.
C34_ChunkingIndependent ==
  LET whole == SingleRead(sent)
  IN /\ IsPrefix(yielded, whole)
     /\ (pc = "reading" /\ wire = <<>>) => (yielded = whole /\ buffer = <<>>)
     /\ exit.how = "return" => yielded = whole

C34_Witness ==
  /\ pc = "reading"
  /\ sent = <<"text-a", "malformed", "text-b">>
  /\ yielded = <<"a">>
  /\ buffer = <<"data:">>
  /\ wire = <<" ", "{", "text-b", "}", "\n">>

\* the frames that lack their newline
OpenFrames == {"unterminated", "done-open"}

\* all but the last
Front(frames) == SubSeq(frames, 1, Len(frames) - 1)

\* C35: when the last frame of a stream lacks its newline (a text frame or
\* the [DONE] sentinel) and no terminator came before it, that frame is
\* never handled: the decoder yields the texts of the frames before it and
\* nothing else, returns only at the end of the data, not for the sentinel,
\* logs nothing, and leaves the frame in its buffer.
C35_UnterminatedFrameDiscarded ==
  (/\ sent # <<>>
   /\ sent[Len(sent)] \in OpenFrames
   /\ \A i \in DOMAIN Front(sent) : sent[i] \notin OpenFrames
   /\ ~HasTerminator(sent))
    => /\ IsPrefix(yielded, FrameTexts(Front(sent)))
       /\ warnings = <<>>
       /\ exit.how = "return"
            => /\ serverClosed /\ wire = <<>>
               /\ yielded = FrameTexts(Front(sent))
               /\ buffer = FrameTokens(sent[Len(sent)])
       /\ (pc = "done" /\ kind = "generate" /\ exit.how = "return")
            => result = Success(Join(FrameTexts(Front(sent))))

C35_Witness ==
  /\ pc = "done"
  /\ kind = "generate"
  /\ sent = <<"text-b", "unterminated">>
  /\ serverClosed
  /\ exit.how = "return"
  /\ yielded = <<"b">>
  /\ result = Success("b")

\* C37: on a well-formed stream, every step that calls the callback,
\* whether the callback throws or not, leaves the decoder in its loop, at
\* the next line or the next read, with what it had yielded; the step in
\* which the callback throws is the only one that logs; the only error of
\* the decoder and of the call is a failed read, and the texts of all the
\* frames are yielded as if the callback had not thrown.
C37_CallbackErrorSkipped ==
  /\ [][notified' # notified
          => /\ pc = "yielded"
             /\ pc' = Continue(lines)
             /\ lines' = lines
             /\ exit' = exit
             /\ yielded' = yielded
             /\ notified' = Append(notified, yielded[Len(yielded)])]_vars
  /\ [][warnings' # warnings => notified' # notified]_vars
  /\ [](/\ exit.how = "throw" => exit.error = NetworkError
        /\ (conn # "none" /\ result.status = "error") => result.error = NetworkError
        /\ warnings # <<>>
             => /\ IsPrefix(yielded, FrameTexts(sent))
                /\ (pc = "reading" /\ wire = <<>>) => yielded = FrameTexts(sent)
                /\ (pc = "done" /\ kind = "generate" /\ exit.how = "return")
                     => result = Success(Join(FrameTexts(sent))))

C37_Witness ==
  /\ pc = "done"
  /\ kind = "generate"
  /\ sent = <<"text-a", "text-b", "completed">>
  /\ warnings = <<"malformed">>
  /\ notified = <<"a", "b">>
  /\ result = Success("ab")

\* C38: the step that issues the session delete of a call that had opened
\* the event stream leaves the connection cancelled, and the connection is
\* never open while a delete is under way or done, whether the decoder
\* returned, failed or was abandoned.
C38_CancelBeforeDelete ==
  /\ [][(Count("delete")' > Count("delete") /\ conn # "none")
          => (conn = "open" /\ pc = "cancelling" /\ conn' = "cancelled")]_vars
  /\ [](Count("delete") >= 1 => conn \in {"none", "cancelled"})
  /\ []((Count("delete") >= 1 /\ conn = "cancelled")
          => exit.how \in {"return", "throw", "abandon"})

C38_Witness ==
  /\ pc = "deleting"
  /\ kind = "stream"
  /\ exit.how = "abandon"
  /\ conn = "cancelled"
  /\ Count("delete") = 1
  /\ Len(responses) = 3

\* C39: a call whose create-session request was answered with a body whose
\* id is a string, the empty string included, has issued a delete request
\* for that id when it ends.
C39_DeleteForEveryStringId ==
  (pc = "done" /\ Answered(1) /\ responses[1].outcome = "ok"
   /\ responses[1].body.valid /\ ~responses[1].body.null
   /\ responses[1].body.id.t = "string")
    => \E i \in DOMAIN requests :
         requests[i] = DeleteRequest(config, responses[1].body.id)

\* C36: once the server has emitted the completion signal for the prompt
\* of a call, before or after the call opened its event stream, the call
\* reaches its end.
C36_CompletionEndsCall ==
  (pc \in {"opening", "reading", "lines", "yielded"} /\ HasTerminator(early \o sent))
    ~> pc = "done"

====
